---- MODULE Spec2Model ----
(***************************************************************************)
(* Model of build.py, the static-site build script: clean the output       *)
(* directory, fetch and gzip PicoCSS, copy and transcode the assets, load  *)
(* details.yaml, generate the QR code, render and write index.html.        *)
(*                                                                         *)
(* One file system (fs, dirs) holds the build inputs (LICENSE, assets/,    *)
(* details.yaml, template.html) and the output tree out/.  A path is a     *)
(* record [dir, base, ext]: dir is the tuple of directory names from the   *)
(* working directory, base and ext are what os.path.splitext separates.    *)
(* A content is a record [kind, data, aux] standing for the file's bytes.  *)
(* The asset tree is one directory deep (os.walk treats every directory    *)
(* alike).                                                                 *)
(***************************************************************************)
EXTENDS Integers, Sequences, FiniteSets

VARIABLES fs, dirs, remote, clock, pc, exitCode, details, template, html,
          renderArg, walkFiles, visited, failed, steps, gets, runs,
          prevOut, prevExit, staleIndex

vars == <<fs, dirs, remote, clock, pc, exitCode, details, template, html,
          renderArg, walkFiles, visited, failed, steps, gets, runs,
          prevOut, prevExit, staleIndex>>

\* ------------------------------------------------------------------ bounds
MaxClock == 1
MaxRuns == 2

\* ----------------------------------------------------------- configuration
OutputDir == <<"out">>
AssetsSrcDir == <<"assets">>
CssDir == OutputDir \o <<"css">>
QrBorder == 2

\* --------------------------------------------------------- paths, contents
File(dir, base, ext) == [dir |-> dir, base |-> base, ext |-> ext]
Content(kind, data, aux) == [kind |-> kind, data |-> data, aux |-> aux]
NoContent == Content("none", 0, 0)
NoPath == File(<< >>, "", "")

Under(dir, root) ==
  /\ Len(dir) >= Len(root)
  /\ SubSeq(dir, 1, Len(root)) = root

EmptyTree == [p \in {} |-> NoContent]
Restrict(files, S) == [p \in S |-> files[p]]
Put(files, p, c) == [q \in DOMAIN files \cup {p} |-> IF q = p THEN c ELSE files[q]]
Remove(files, p) == [q \in DOMAIN files \ {p} |-> files[q]]
Merge(f, g) == [p \in DOMAIN f \cup DOMAIN g |-> IF p \in DOMAIN g THEN g[p] ELSE f[p]]

LicensePath == File(<< >>, "LICENSE", "")
DetailsPath == File(<< >>, "details", "yaml")
TemplatePath == File(<< >>, "template", "html")
IndexPath == File(OutputDir, "index", "html")
FinalCssPath == File(CssDir, "pico.min", "css")
GzCssPath == File(CssDir, "pico.min.css", "gz")

\* assets_dest_dir = os.path.join(OUTPUT_DIR, ASSETS_SRC_DIR)
AssetsDestDir_InPlace == AssetsSrcDir
AssetsDestDir == OutputDir \o AssetsSrcDir

QrOutputPath == File(AssetsDestDir, "qr_code_generated", "webp")
QrRelPath == File(AssetsSrcDir, "qr_code_generated", "webp")

\* the files below the output directory, and the rest (the build inputs)
OutTree(files) == Restrict(files, {p \in DOMAIN files : Under(p.dir, OutputDir)})
InputTree(files) == Restrict(files, {p \in DOMAIN files : ~Under(p.dir, OutputDir)})
InputDirs(ds) == {d \in ds : ~Under(d, OutputDir)}

\* ------------------------------------------------------- pure conversions
\* str.lower on the extensions that occur
Lower(ext) ==
  CASE ext = "JPG" -> "jpg"
    [] ext = "JPEG" -> "jpeg"
    [] ext = "PNG" -> "png"
    [] OTHER -> ext

\* file_ext.lower() in ['.jpg', '.jpeg', '.png']
IsRaster_CaseSensitive(ext) == ext \in {"jpg", "jpeg", "png"}
IsRaster(ext) == Lower(ext) \in {"jpg", "jpeg", "png"}

\* webp_path = f"{file_name}.webp"
WebpPath(p) == File(p.dir, p.base, "webp")

\* Image.open succeeds on image bytes only
Decodable(c) == c.kind = "image"
\* img.save(webp_path, 'webp', lossless=True)
Webp(c) == Content("webp", c.data, 0)
\* gzip.open(..., 'wb') stamps the header with the current time
Gzip(c, now) == Content("gz", c.data, now)
\* qrcode.make(qr_url, border=2) saved as lossless WebP
MakeQr == Content("qr", 0, QrBorder)

\* the except clause of the asset loop catches every conversion error
ConvertErrorFatal_Abort == TRUE
ConvertErrorFatal == FALSE

\* the in-memory metadata: truthy is `bool(details)`, qr_code is one of
\* "absent", "nourl", "url", images is "absent" or "map", qr is images.qr
Details(truthy, qr_code, images, qr) ==
  [truthy |-> truthy, qr_code |-> qr_code, images |-> images, qr |-> qr]
NoDetails == Details(FALSE, "absent", "absent", NoPath)

\* yaml.safe_load: a yaml file's content carries the mapping it denotes
YamlParses(c) == c.kind # "yaml_invalid"
SafeLoad(c) ==
  IF c.kind = "yaml_map"
  THEN Details(TRUE,
               CASE c.data = 2 -> "url" [] c.data = 1 -> "nourl" [] OTHER -> "absent",
               IF c.aux = 1 THEN "map" ELSE "absent",
               NoPath)
  ELSE NoDetails

\* 'qr_code' in details and 'url' in details['qr_code']
HasQrUrl_KeyOnly(d) == d.qr_code # "absent"
HasQrUrl(d) == d.qr_code = "url"

\* template.render(details), then minify(...)
RenderTemplate(t, d) ==
  Content("html", t.data, IF d.images = "map" /\ d.qr # NoPath THEN 1 ELSE 0)
Minify(c) == Content("minhtml", c.data, c.aux)

\* shutil.rmtree(OUTPUT_DIR)
CleanOutput_Keep(files) == files
CleanOutput(files) == InputTree(files)

\* shutil.copytree(src, dst, dirs_exist_ok=True)
CopyTree(files, src, dst) ==
  LET from == {p \in DOMAIN files : Under(p.dir, src)}
      target(p) == File(dst \o SubSeq(p.dir, Len(src) + 1, Len(p.dir)), p.base, p.ext)
  IN  [q \in DOMAIN files \cup {target(p) : p \in from} |->
         IF \E p \in from : target(p) = q
         THEN files[CHOOSE p \in from : target(p) = q]
         ELSE files[q]]

\* which outcomes of the download end the run: RequestException is caught
\* and exits, BadZipFile and KeyError are uncaught
FetchFatal_RequestOnly(r) == r \in {"neterr", "httperr"}
FetchFatal(r) == r # "ok"

\* ------------------------------------------------------------ the inputs
AssetNames ==
  << [base |-> "x", ext |-> "jpg"],
     [base |-> "x", ext |-> "PNG"],
     [base |-> "x", ext |-> "webp"],
     [base |-> "doc", ext |-> "pdf"],
     [base |-> "qr_code_generated", ext |-> "webp"] >>
RerunNames ==
  << [base |-> "x", ext |-> "jpg"],
     [base |-> "doc", ext |-> "pdf"] >>

Tree(files, ds) == [files |-> files, dirs |-> ds]

\* the asset trees over names: S the files present, B the raster-named
\* files whose bytes are not a decodable image
AssetTree(names, S, B) ==
  LET path(i) == File(AssetsSrcDir, names[i].base, names[i].ext)
  IN  [p \in {path(i) : i \in S} |->
         LET i == CHOOSE j \in S : path(j) = p
         IN  Content(IF names[i].ext \in {"jpg", "PNG"} /\ i \notin B
                     THEN "image" ELSE "bytes", i, 0)]

AssetChoices(names) ==
  {Tree(EmptyTree, {})} \cup
  {Tree(AssetTree(names, S, B), {AssetsSrcDir}) :
     S \in SUBSET (1..Len(names)),
     B \in SUBSET {i \in 1..Len(names) : names[i].ext \in {"jpg", "PNG"}}}

LicenseChoices ==
  {Tree(EmptyTree, {}),
   Tree(Put(EmptyTree, LicensePath, Content("bytes", 10, 0)), {})}

DetailsChoices ==
  {Tree(EmptyTree, {})} \cup
  {Tree(Put(EmptyTree, DetailsPath, c), {}) :
     c \in {Content("yaml_invalid", 0, 0), Content("yaml_empty", 0, 0)} \cup
           {Content("yaml_map", q, i) : q \in 0..2, i \in 0..1}}

TemplateChoices ==
  {Tree(EmptyTree, {}),
   Tree(Put(EmptyTree, TemplatePath, Content("template", 20, 0)), {})}

\* what an earlier build may have left in the output directory
PriorOutChoices ==
  {Tree(EmptyTree, {}),
   Tree(Put(Put(Put(EmptyTree, IndexPath, Content("bytes", 30, 0)),
                QrOutputPath, Content("bytes", 31, 0)),
            File(OutputDir, "stale", "txt"), Content("bytes", 32, 0)),
        {OutputDir, OutputDir \o AssetsSrcDir})}

RemoteChoices == {"ok", "neterr", "httperr", "badzip", "nopath"}
PicoCss == Content("bytes", 40, 0)

InitWith(names) ==
  /\ \E l \in LicenseChoices, a \in AssetChoices(names), d \in DetailsChoices,
        t \in TemplateChoices, o \in PriorOutChoices :
       /\ fs = Merge(Merge(Merge(Merge(l.files, a.files), d.files), t.files), o.files)
       /\ dirs = {<< >>} \cup a.dirs \cup o.dirs
  /\ remote \in RemoteChoices
  /\ clock = 0
  /\ pc = "setup"
  /\ exitCode = -1
  /\ details = NoDetails
  /\ template = NoContent
  /\ html = NoContent
  /\ renderArg = NoDetails
  /\ walkFiles = {}
  /\ visited = {}
  /\ failed = {}
  /\ steps = {}
  /\ gets = 0
  /\ runs = 1
  /\ prevOut = EmptyTree
  /\ prevExit = -1
  /\ staleIndex = FALSE

Init == InitWith(AssetNames)
InitRerun == InitWith(RerunNames)

\* ----------------------------------------------------------- the pipeline
\* 1. clean the output directory, recreate out/css, copy LICENSE
Setup ==
  /\ pc = "setup"
  /\ LET cleaned == CleanOutput(fs)
     IN  fs' = IF LicensePath \in DOMAIN fs
               THEN Put(cleaned, File(OutputDir, "LICENSE", ""), fs[LicensePath])
               ELSE cleaned
  /\ dirs' = InputDirs(dirs) \cup {OutputDir, CssDir}
  /\ staleIndex' = (IndexPath \in DOMAIN fs)
  /\ steps' = steps \cup {"setup"}
  /\ pc' = "fetch"
  /\ UNCHANGED <<remote, clock, exitCode, details, template, html, renderArg,
                 walkFiles, visited, failed, gets, runs, prevOut, prevExit>>

\* 2. one GET; extract pico.min.css, move it to out/css, gzip it
Fetch ==
  /\ pc = "fetch"
  /\ gets' = gets + 1
  /\ steps' = steps \cup {"fetch"}
  /\ IF FetchFatal(remote)
     THEN /\ pc' = "exited"
          /\ exitCode' = 1
          /\ UNCHANGED <<fs, clock>>
     ELSE /\ pc' = "assets"
          /\ exitCode' = exitCode
          /\ IF remote = "ok"
             THEN \E now \in clock..MaxClock :
                    /\ clock' = now
                    /\ fs' = Put(Put(fs, FinalCssPath, PicoCss),
                                 GzCssPath, Gzip(PicoCss, now))
             ELSE UNCHANGED <<fs, clock>>
  /\ UNCHANGED <<dirs, remote, details, template, html, renderArg, walkFiles,
                 visited, failed, runs, prevOut, prevExit, staleIndex>>

\* 3. copy the asset tree and list it, or skip when assets/ is absent
CopyAssets ==
  /\ pc = "assets"
  /\ IF AssetsSrcDir \in dirs
     THEN LET copied == CopyTree(fs, AssetsSrcDir, AssetsDestDir)
          IN  /\ fs' = copied
              /\ dirs' = dirs \cup {AssetsDestDir}
              /\ walkFiles' = {p \in DOMAIN copied : Under(p.dir, AssetsDestDir)}
              /\ steps' = steps \cup {"assets", "walk"}
              /\ pc' = "walk"
     ELSE /\ steps' = steps \cup {"assets"}
          /\ pc' = "load"
          /\ UNCHANGED <<fs, dirs, walkFiles>>
  /\ UNCHANGED <<remote, clock, exitCode, details, template, html, renderArg,
                 visited, failed, gets, runs, prevOut, prevExit, staleIndex>>

\* 3. the body of the walk for one listed file, in the order os.walk gives
TranscodeFile(f) ==
  /\ pc = "walk"
  /\ f \in walkFiles \ visited
  /\ LET converts == IsRaster(f.ext) /\ Decodable(fs[f])
         errors == IsRaster(f.ext) /\ ~Decodable(fs[f])
     IN  /\ fs' = IF converts
                  THEN Remove(Put(fs, WebpPath(f), Webp(fs[f])), f)
                  ELSE fs
         /\ failed' = IF errors THEN failed \cup {f} ELSE failed
         /\ IF errors /\ ConvertErrorFatal
            THEN pc' = "exited" /\ exitCode' = 1
            ELSE UNCHANGED <<pc, exitCode>>
  /\ visited' = visited \cup {f}
  /\ UNCHANGED <<dirs, remote, clock, details, template, html, renderArg,
                 walkFiles, steps, gets, runs, prevOut, prevExit, staleIndex>>

Transcode == \E f \in walkFiles : TranscodeFile(f)

\* the walk has listed no further file
WalkDone ==
  /\ pc = "walk"
  /\ visited = walkFiles
  /\ pc' = "load"
  /\ UNCHANGED <<fs, dirs, remote, clock, exitCode, details, template, html,
                 renderArg, walkFiles, visited, failed, steps, gets, runs,
                 prevOut, prevExit, staleIndex>>

\* 4. open and parse details.yaml, reject an empty value
LoadData ==
  /\ pc = "load"
  /\ steps' = steps \cup {"load"}
  /\ IF DetailsPath \in DOMAIN fs /\ YamlParses(fs[DetailsPath])
     THEN /\ details' = SafeLoad(fs[DetailsPath])
          /\ IF details'.truthy
             THEN pc' = "qr" /\ exitCode' = exitCode
             ELSE pc' = "exited" /\ exitCode' = 1
     ELSE /\ pc' = "exited"
          /\ exitCode' = 1
          /\ UNCHANGED details
  /\ UNCHANGED <<fs, dirs, remote, clock, template, html, renderArg, walkFiles,
                 visited, failed, gets, runs, prevOut, prevExit, staleIndex>>

\* 4a. write the QR image, then record its path in details['images']
GenerateQR ==
  /\ pc = "qr"
  /\ steps' = steps \cup {"qr"}
  /\ IF HasQrUrl(details)
     THEN /\ fs' = Put(fs, QrOutputPath, MakeQr)
          /\ dirs' = dirs \cup {AssetsDestDir}
          /\ IF details.images = "map"
             THEN /\ details' = [details EXCEPT !.qr = QrRelPath]
                  /\ pc' = "template"
                  /\ exitCode' = exitCode
             ELSE /\ pc' = "exited"
                  /\ exitCode' = 1
                  /\ UNCHANGED details
     ELSE /\ pc' = "template"
          /\ UNCHANGED <<fs, dirs, details, exitCode>>
  /\ UNCHANGED <<remote, clock, template, html, renderArg, walkFiles, visited,
                 failed, gets, runs, prevOut, prevExit, staleIndex>>

\* 4. env.get_template("template.html")
GetTemplate ==
  /\ pc = "template"
  /\ steps' = steps \cup {"template"}
  /\ IF TemplatePath \in DOMAIN fs
     THEN /\ template' = fs[TemplatePath]
          /\ pc' = "render"
          /\ exitCode' = exitCode
     ELSE /\ pc' = "exited"
          /\ exitCode' = 1
          /\ UNCHANGED template
  /\ UNCHANGED <<fs, dirs, remote, clock, details, html, renderArg, walkFiles,
                 visited, failed, gets, runs, prevOut, prevExit, staleIndex>>

\* 5. render the template with the metadata and minify
Render ==
  /\ pc = "render"
  /\ steps' = steps \cup {"render"}
  /\ renderArg' = details
  /\ html' = Minify(RenderTemplate(template, details))
  /\ pc' = "write"
  /\ UNCHANGED <<fs, dirs, remote, clock, exitCode, details, template,
                 walkFiles, visited, failed, gets, runs, prevOut, prevExit,
                 staleIndex>>

\* 6. write out/index.html and end
Write ==
  /\ pc = "write"
  /\ steps' = steps \cup {"write"}
  /\ fs' = Put(fs, IndexPath, html)
  /\ pc' = "exited"
  /\ exitCode' = 0
  /\ UNCHANGED <<dirs, remote, clock, details, template, html, renderArg,
                 walkFiles, visited, failed, gets, runs, prevOut, prevExit,
                 staleIndex>>

\* the script is started again over the same inputs and the same archive
Rerun ==
  /\ pc = "exited"
  /\ runs < MaxRuns
  /\ runs' = runs + 1
  /\ prevOut' = OutTree(fs)
  /\ prevExit' = exitCode
  /\ pc' = "setup"
  /\ exitCode' = -1
  /\ details' = NoDetails
  /\ template' = NoContent
  /\ html' = NoContent
  /\ renderArg' = NoDetails
  /\ walkFiles' = {}
  /\ visited' = {}
  /\ failed' = {}
  /\ steps' = {}
  /\ gets' = 0
  /\ UNCHANGED <<fs, dirs, remote, clock, staleIndex>>

Next ==
  \/ Setup
  \/ Fetch
  \/ CopyAssets
  \/ Transcode
  \/ WalkDone
  \/ LoadData
  \/ GenerateQR
  \/ GetTemplate
  \/ Render
  \/ Write

NextRerun ==
  \/ Next
  \/ Rerun

Spec == Init /\ [][Next]_vars
SpecRerun == InitRerun /\ [][NextRerun]_vars

\* ------------------------------------------------------------- properties
Terminated == pc = "exited"
Succeeded == pc = "exited" /\ exitCode = 0
MetadataBad ==
  \/ DetailsPath \notin DOMAIN fs
  \/ fs[DetailsPath].kind \in {"yaml_invalid", "yaml_empty"}
MetadataUrl == ~MetadataBad /\ fs[DetailsPath].data = 2
TemplateMissing == TemplatePath \notin DOMAIN fs
WalkFinished == "walk" \in steps /\ pc # "walk"
SrcAssets == {p \in DOMAIN fs : p.dir = AssetsSrcDir}
OutOf(p) == File(AssetsDestDir, p.base, p.ext)

\* C1: a run whose metadata file is missing, unparsable or empty, or whose
\* template file is missing, ends with a non-zero exit code and without
\* out/index.html, whatever the output directory held before.
C1_BadInputsFail ==
  (Terminated /\ (MetadataBad \/ TemplateMissing))
    => (exitCode # 0 /\ IndexPath \notin DOMAIN fs)

C1_Witness ==
  /\ Terminated
  /\ staleIndex
  /\ "load" \in steps
  /\ DetailsPath \in DOMAIN fs
  /\ fs[DetailsPath].kind = "yaml_empty"
  /\ exitCode = 1

\* C2: two successive successful runs over the same inputs and the same
\* remote archive leave byte-identical output trees.
C2_RerunIdentical ==
  (Succeeded /\ runs >= 2 /\ prevExit = 0) => OutTree(fs) = prevOut

\* C3 as stated: once the transcoder has finished, every source file with a
\* raster extension has its .webp in the output assets and its original
\* name is gone from them.
C3_EveryRasterConverted ==
  WalkFinished =>
    \A p \in SrcAssets :
      Lower(p.ext) \in {"jpg", "jpeg", "png"} =>
        /\ WebpPath(OutOf(p)) \in DOMAIN fs
        /\ OutOf(p) \notin DOMAIN fs

\* C3 amended: once the transcoder has finished, every source file with a
\* raster extension (in any letter case) that decodes as an image has its
\* .webp in the output assets and its original name is gone from them.
C3_DecodableRasterConverted ==
  WalkFinished =>
    \A p \in SrcAssets :
      (Lower(p.ext) \in {"jpg", "jpeg", "png"} /\ fs[p].kind = "image") =>
        /\ WebpPath(OutOf(p)) \in DOMAIN fs
        /\ OutOf(p) \notin DOMAIN fs

C3_Witness ==
  /\ WalkFinished
  /\ File(AssetsSrcDir, "x", "PNG") \in DOMAIN fs
  /\ fs[File(AssetsSrcDir, "x", "PNG")].kind = "image"
  /\ File(AssetsDestDir, "x", "webp") \in DOMAIN fs
  /\ File(AssetsDestDir, "x", "PNG") \notin DOMAIN fs

\* C4: at the end of a successful run every source asset without a raster
\* extension is in the output assets at the same relative path with the
\* same bytes, whatever else the source tree and the metadata hold.
C4_NonRasterCopiedVerbatim ==
  Succeeded =>
    \A p \in SrcAssets :
      Lower(p.ext) \notin {"jpg", "jpeg", "png"} =>
        /\ OutOf(p) \in DOMAIN fs
        /\ fs[OutOf(p)] = fs[p]

\* C5: whenever qr_code.url is present in the metadata (download, metadata
\* file and template being in order), the run writes
\* assets/qr_code_generated.webp and hands the renderer metadata whose
\* images.qr is 'assets/qr_code_generated.webp', with or without a source
\* assets directory.
C5_QrWrittenAndInjected ==
  (Terminated /\ remote = "ok" /\ MetadataUrl /\ ~TemplateMissing) =>
    /\ QrOutputPath \in DOMAIN fs
    /\ fs[QrOutputPath] = MakeQr
    /\ "render" \in steps
    /\ renderArg.images = "map"
    /\ renderArg.qr = QrRelPath

C7_FetchFailureFatal ==
  /\ gets <= 1
  /\ "fetch" \in steps => gets = 1
  /\ (remote # "ok" /\ "fetch" \in steps) =>
       /\ Terminated
       /\ exitCode # 0
       /\ steps \cap {"assets", "walk", "load", "qr", "template", "render", "write"} = {}

C7_Witness ==
  /\ Terminated
  /\ remote = "nopath"
  /\ gets = 1
  /\ exitCode = 1
  /\ SrcAssets # {}

\* C8: a raster file that fails to transcode does not abort the walk or the
\* run: once the walk is over every listed file has been visited, the
\* failing files are left as copied, every other raster file is converted,
\* and the run is at, or past, the metadata step.
C8_TranscodeFailureTolerated ==
  /\ pc = "walk" => exitCode = -1
  /\ WalkFinished =>
       /\ visited = walkFiles
       /\ pc = "load" \/ "load" \in steps
       /\ \A f \in failed : f \in DOMAIN fs /\ Decodable(fs[f]) = FALSE
       /\ \A f \in walkFiles \ failed :
            Lower(f.ext) \in {"jpg", "jpeg", "png"} =>
              WebpPath(f) \in DOMAIN fs /\ f \notin DOMAIN fs

C8_Witness ==
  /\ Succeeded
  /\ failed = {File(AssetsDestDir, "x", "jpg")}
  /\ File(AssetsDestDir, "x", "PNG") \in walkFiles
  /\ File(AssetsDestDir, "doc", "pdf") \in walkFiles
  /\ fs[File(AssetsDestDir, "x", "webp")].kind = "webp"
  /\ IndexPath \in DOMAIN fs

\* C9: with no source assets directory and the download, metadata and
\* template in order, the run skips the transcoder, exits with code 0 and
\* has written index.html, for every metadata value.
C9_NoAssetsStillBuilds ==
  (Terminated /\ AssetsSrcDir \notin dirs /\ remote = "ok" /\ ~MetadataBad
     /\ ~TemplateMissing) =>
    /\ "walk" \notin steps
    /\ exitCode = 0
    /\ IndexPath \in DOMAIN fs

\* C10: no step changes the build inputs: the files and directories outside
\* the output directory keep their paths and bytes in every step.
C10_InputsUntouched ==
  [][InputTree(fs') = InputTree(fs) /\ InputDirs(dirs') = InputDirs(dirs)]_vars

C10_Witness ==
  /\ Succeeded
  /\ File(AssetsSrcDir, "x", "jpg") \in DOMAIN fs
  /\ File(AssetsDestDir, "x", "jpg") \notin DOMAIN fs
  /\ File(AssetsDestDir, "x", "webp") \in DOMAIN fs
  /\ File(AssetsSrcDir, "qr_code_generated", "webp") \in DOMAIN fs
  /\ fs[File(AssetsSrcDir, "qr_code_generated", "webp")].kind = "bytes"
  /\ fs[QrOutputPath] = MakeQr
  /\ LicensePath \in DOMAIN fs

====
